---- MODULE Spec2Model ----
(***************************************************************************)
(* Bill extraction service: the request handler of app/main.py, the        *)
(* two-tier strategy dispatch of BillExtractionService.extract_bill_data   *)
(* and the reconciliation fold of BillExtractionService.reconcile_amounts. *)
(*                                                                         *)
(* Numbers.  A monetary value is an integer count of thousandths (1.004 is *)
(* 1004), so that rounding to 2 decimals is visible.  An accuracy is an    *)
(* integer count of hundredths of a percent (75.0 % is 7500).  round(x, 2) *)
(* is Python's: to the nearest multiple of 0.01, a tie going to the even   *)
(* multiple.                                                               *)
(***************************************************************************)
EXTENDS Integers, Sequences, FiniteSets, TLC

VARIABLES
    config,          \* app.config.config: LLM_PROVIDER and which keys are set
    provider,        \* BillExtractionService.provider
    openai_client,   \* BillExtractionService.openai_client is set
    gemini_model,    \* BillExtractionService.gemini_model is set
    pc,              \* where the request in progress stands
    ocr_result,      \* what ocr_service.process_document returned
    primary,         \* the primary (vision) strategy's attempt of this request
    fallback,        \* the text-only fallback strategy's attempt of this request
    inflight,        \* the strategies whose model call has not returned yet
    extracted_data,  \* extract_bill_data's local extracted_data
    exit_line,       \* the line extract_bill_data returned from (0: not yet)
    reconciled_data, \* what extract_bill_data returned
    response         \* how the /extract-bill-data handler ended

vars == <<config, provider, openai_client, gemini_model, pc, ocr_result, primary,
          fallback, inflight, extracted_data, exit_line, reconciled_data, response>>

(***************************************************************************)
(* Bounds of the payloads the reconciliation is checked on.                *)
(***************************************************************************)
MaxPages == 2
MaxItems == 2

(***************************************************************************)
(* JSON scalars as the strategies hand them over.  k is the kind:          *)
(*   "missing" the key is not in the mapping, "null" JSON null,            *)
(*   "num" a JSON number, "numstr" a string float() parses ("1.004"),      *)
(*   "str" a string float() rejects ("abc").                               *)
(***************************************************************************)
Missing == [k |-> "missing", v |-> 0]
Null == [k |-> "null", v |-> 0]
Num(x) == [k |-> "num", v |-> x]
NumStr(x) == [k |-> "numstr", v |-> x]
BadStr == [k |-> "str", v |-> 0]

\* Text fields (item_name, page_no): the key missing, null, or a string s.
TxtMissing == [k |-> "missing", s |-> ""]
TxtNull == [k |-> "null", s |-> ""]
Txt(s) == [k |-> "str", s |-> s]

\* Optional[float] of the pydantic models.
None == [k |-> "none", v |-> 0]
Float(x) == [k |-> "float", v |-> x]

(***************************************************************************)
(* Python primitives.                                                      *)
(***************************************************************************)
\* dict.get(key): None when the key is missing.
Get(val) == IF val.k = "missing" THEN Null ELSE val

\* dict.get(key, default).
GetDefault(val, default) == IF val.k = "missing" THEN default ELSE val

\* float(x) raises TypeError on None and ValueError on a non-numeric string.
FloatRaises(val) == val.k \notin {"num", "numstr"}

FloatOf(val) == val.v

\* n / d rounded to the nearest integer, ties to even (d > 0).
RoundHalfEven(n, d) ==
    LET q == n \div d
        r == n % d
    IN  IF 2 * r < d THEN q
        ELSE IF 2 * r > d THEN q + 1
        ELSE IF q % 2 = 0 THEN q ELSE q + 1

\* 100 * n / d in hundredths, rounded to the nearest, ties to even (d > 0);
\* the quotient is split so that no intermediate value leaves 32 bits.
Percent(n, d) == 10000 * (n \div d) + RoundHalfEven(10000 * (n % d), d)

\* round(x, 2) of a value in thousandths.
Round2(x) == 10 * RoundHalfEven(x, 10)

Abs(x) == IF x < 0 THEN -x ELSE x

\* bool(x) of an Optional[float].
TruthyFloat(o) == o.k = "float" /\ o.v # 0

(***************************************************************************)
(* BillExtractionService.reconcile_amounts.                                *)
(*                                                                         *)
(* A raw payload is                                                        *)
(*   [pagewise_line_items |-> [k, pages], actual_bill_total |-> scalar]    *)
(* with k "list", "missing" or "null"; a page is                           *)
(*   [page_no |-> text, bill_items |-> [k, items], sub_total |-> scalar]   *)
(* and an item is                                                          *)
(*   [item_name |-> text, item_amount, item_rate, item_quantity |-> scalar]*)
(* An operator that can raise returns [raised |-> BOOLEAN, ...].           *)
(***************************************************************************)
\* Variant: the presence test by truth value, `if d.get(key)`, which takes a
\* 0 for an absent value.
OptionalFloatTruthy(val) ==
    IF Get(val).k # "null" /\ ~(val.k = "num" /\ val.v = 0)
    THEN [raised |-> FloatRaises(val), val |-> Float(FloatOf(val))]
    ELSE [raised |-> FALSE, val |-> None]

\* Variant: a field that does not coerce is dropped instead of raising.
OptionalFloatLenient(val) ==
    IF Get(val).k # "null" /\ ~FloatRaises(val)
    THEN [raised |-> FALSE, val |-> Float(FloatOf(val))]
    ELSE [raised |-> FALSE, val |-> None]

\* `float(d[key]) if d.get(key) is not None else None`
OptionalFloat(val) ==
    IF Get(val).k # "null"
    THEN [raised |-> FloatRaises(val), val |-> Float(FloatOf(val))]
    ELSE [raised |-> FALSE, val |-> None]

\* item_amount=float(item_data.get("item_amount", 0))
ItemAmount(item_data) ==
    LET a == GetDefault(item_data.item_amount, Num(0))
    IN  [raised |-> FloatRaises(a), val |-> FloatOf(a)]

\* item_name=item_data.get("item_name", "Unknown"); BillItem.item_name is a
\* required str, so pydantic rejects None.
ItemName(item_data) ==
    LET n == GetDefault(item_data.item_name, Txt("Unknown"))
    IN  [raised |-> n.k # "str", val |-> n.s]

\* BillItem(item_name=..., item_amount=..., item_rate=..., item_quantity=...)
NewBillItem(item_data) ==
    LET name == ItemName(item_data)
        amount == ItemAmount(item_data)
        rate == OptionalFloat(item_data.item_rate)
        quantity == OptionalFloat(item_data.item_quantity)
    IN  [raised |-> name.raised \/ amount.raised \/ rate.raised \/ quantity.raised,
         item |-> [item_name |-> name.val,
                   item_amount |-> amount.val,
                   item_rate |-> rate.val,
                   item_quantity |-> quantity.val]]

\* Variant: the running sum rounded at every step.
AccumulateRounded(reconciled_amount, item_amount) ==
    Round2(reconciled_amount + item_amount)

\* reconciled_amount += bill_item.item_amount
Accumulate(reconciled_amount, item_amount) == reconciled_amount + item_amount

\* total_items += 1
IncrementCount(total_items) == total_items + 1

\* The inner loop, from item i of the page on.  acc holds the locals
\* bill_items, total_items and reconciled_amount.
RECURSIVE ItemsLoop(_, _, _)
ItemsLoop(items, i, acc) ==
    IF i > Len(items) THEN acc
    ELSE LET b == NewBillItem(items[i])
         IN  IF b.raised THEN [acc EXCEPT !.raised = TRUE]
             ELSE ItemsLoop(items, i + 1,
                    [raised |-> FALSE,
                     bill_items |-> Append(acc.bill_items, b.item),
                     total_items |-> IncrementCount(acc.total_items),
                     reconciled_amount |->
                         Accumulate(acc.reconciled_amount, b.item.item_amount)])

\* str(page_data.get("page_no", "1")): str(None) is "None".
PageNo(page_data) ==
    LET p == GetDefault(page_data.page_no, Txt("1"))
    IN  IF p.k = "null" THEN "None" ELSE p.s

\* page_data.get("bill_items", []): iterating None raises TypeError.
BillItemsOf(page_data) ==
    [raised |-> page_data.bill_items.k = "null",
     items |-> IF page_data.bill_items.k = "list"
               THEN page_data.bill_items.items ELSE <<>>]

\* Variant: the new page put in front of the pages so far.
PrependPage(pagewise_items, page) == <<page>> \o pagewise_items

\* pagewise_items.append(PageWiseLineItems(...))
AppendPage(pagewise_items, page) == Append(pagewise_items, page)

\* The outer loop, from page i on.  acc holds the locals pagewise_items,
\* total_items and reconciled_amount.
RECURSIVE PagesLoop(_, _, _)
PagesLoop(pages, i, acc) ==
    IF i > Len(pages) THEN acc
    ELSE LET page_data == pages[i]
             its == BillItemsOf(page_data)
             inner == ItemsLoop(its.items, 1,
                        [raised |-> FALSE,
                         bill_items |-> <<>>,
                         total_items |-> acc.total_items,
                         reconciled_amount |-> acc.reconciled_amount])
             sub == OptionalFloat(page_data.sub_total)
         IN  IF its.raised \/ inner.raised \/ sub.raised
             THEN [acc EXCEPT !.raised = TRUE]
             ELSE PagesLoop(pages, i + 1,
                    [raised |-> FALSE,
                     pagewise_items |->
                         AppendPage(acc.pagewise_items,
                                [page_no |-> PageNo(page_data),
                                 bill_items |-> inner.bill_items,
                                 sub_total |-> sub.val]),
                     total_items |-> inner.total_items,
                     reconciled_amount |-> inner.reconciled_amount])

\* extracted_data.get("pagewise_line_items", []): iterating None raises.
PagewiseOf(payload) ==
    [raised |-> payload.pagewise_line_items.k = "null",
     pages |-> IF payload.pagewise_line_items.k = "list"
               THEN payload.pagewise_line_items.pages ELSE <<>>]

\* actual_total = extracted_data.get("actual_bill_total")
\* actual_total = float(actual_total) if actual_total is not None else None
ActualTotal(payload) ==
    LET t == Get(payload.actual_bill_total)
    IN  IF t.k # "null"
        THEN [raised |-> FloatRaises(t), val |-> Float(FloatOf(t))]
        ELSE [raised |-> FALSE, val |-> None]

\* Variant: the accuracy clamped at 0.
AccuracyClamped(reconciled_amount, actual_total) ==
    IF TruthyFloat(actual_total) /\ actual_total.v > 0
    THEN LET a == Percent(actual_total.v - Abs(reconciled_amount - actual_total.v),
                          actual_total.v)
         IN  Float(IF a < 0 THEN 0 ELSE a)
    ELSE None

\* accuracy = None
\* if actual_total and actual_total > 0:
\*     accuracy = round(100 * (1 - abs(reconciled_amount - actual_total) / actual_total), 2)
Accuracy(reconciled_amount, actual_total) ==
    IF TruthyFloat(actual_total) /\ actual_total.v > 0
    THEN Float(Percent(actual_total.v - Abs(reconciled_amount - actual_total.v),
                       actual_total.v))
    ELSE None

\* actual_bill_total=round(actual_total, 2) if actual_total else None
FinalTotal(actual_total) ==
    IF TruthyFloat(actual_total) THEN Float(Round2(actual_total.v)) ELSE None

\* Variant: the pages counted instead of the items.
CountPages(total_items, pagewise_items) == Len(pagewise_items)

\* total_item_count=total_items
TotalItemCount(total_items, pagewise_items) == total_items

\* reconciled_amount=round(reconciled_amount, 2)
FinalAmount(reconciled_amount) == Round2(reconciled_amount)

NoData ==
    [pagewise_line_items |-> <<>>, total_item_count |-> 0, reconciled_amount |-> 0,
     actual_bill_total |-> None, accuracy_percentage |-> None]

\* reconcile_amounts(extracted_data) for a mapping: [raised, data].
ReconcileAmounts(payload) ==
    LET pw == PagewiseOf(payload)
        loop == PagesLoop(pw.pages, 1,
                  [raised |-> FALSE, pagewise_items |-> <<>>,
                   total_items |-> 0, reconciled_amount |-> 0])
        actual_total == ActualTotal(payload)
    IN  IF pw.raised \/ loop.raised \/ actual_total.raised
        THEN [raised |-> TRUE, data |-> NoData]
        ELSE [raised |-> FALSE,
              data |-> [pagewise_line_items |-> loop.pagewise_items,
                        total_item_count |->
                            TotalItemCount(loop.total_items, loop.pagewise_items),
                        reconciled_amount |-> FinalAmount(loop.reconciled_amount),
                        actual_bill_total |-> FinalTotal(actual_total.val),
                        accuracy_percentage |->
                            Accuracy(loop.reconciled_amount, actual_total.val)]]

(***************************************************************************)
(* Values the strategies carry.  A parsed model response, and the local    *)
(* extracted_data, is [t, truthy, obj]: t is "none" (Python None),         *)
(* "object" (a mapping, obj), "list" or "scalar" (a JSON string, number or *)
(* boolean); truthy is bool() of a list or scalar.                         *)
(***************************************************************************)
List(items) == [k |-> "list", items |-> items]

Pages(pages) == [k |-> "list", pages |-> pages]

\* {} : no key at all.
EmptyObject ==
    [pagewise_line_items |-> [k |-> "missing", pages |-> <<>>],
     actual_bill_total |-> Missing,
     extraction_notes |-> FALSE]

PyNone == [t |-> "none", truthy |-> FALSE, obj |-> EmptyObject]
JsonObject(o) == [t |-> "object", truthy |-> TRUE, obj |-> o]
JsonList(nonempty) == [t |-> "list", truthy |-> nonempty, obj |-> EmptyObject]
JsonScalar(truthy) == [t |-> "scalar", truthy |-> truthy, obj |-> EmptyObject]

\* len(d) == 0 of a mapping.
IsEmptyDict(o) ==
    /\ o.pagewise_line_items.k = "missing"
    /\ o.actual_bill_total.k = "missing"
    /\ ~o.extraction_notes

\* bool(x): None, {}, [], 0, "" and False are falsy.
Truthy(x) ==
    CASE x.t = "none" -> FALSE
      [] x.t = "object" -> ~IsEmptyDict(x.obj)
      [] OTHER -> x.truthy

(***************************************************************************)
(* The payloads reconciliation is checked on: every payload of at most     *)
(* MaxPages pages and MaxItems items built from the items and pages below. *)
(***************************************************************************)
Item(name, amount, rate, quantity) ==
    [item_name |-> name, item_amount |-> amount,
     item_rate |-> rate, item_quantity |-> quantity]

Page(page_no, bill_items, sub_total) ==
    [page_no |-> page_no, bill_items |-> bill_items, sub_total |-> sub_total]

Payload(pagewise, total) ==
    [pagewise_line_items |-> pagewise, actual_bill_total |-> total,
     extraction_notes |-> FALSE]

ItemA == Item(Txt("Consultation"), Num(100000), Missing, Null)
ItemB == Item(Txt("Xray"), Num(50000), Num(0), Num(2000))
ItemC == Item(TxtMissing, NumStr(1004), Num(2505), Num(0))
ItemD == Item(Txt("Discount"), Missing, Null, Missing)
ItemBadAmount == Item(Txt("Lab"), BadStr, Num(1000), Num(1000))
ItemBadRate == Item(Txt("Lab"), Num(1000), BadStr, Num(1000))
ItemBadQuantity == Item(Txt("Lab"), Num(1000), Num(1000), BadStr)
ItemNullAmount == Item(Txt("Lab"), Null, Missing, Missing)
ItemNullName == Item(TxtNull, Num(1000), Missing, Missing)

\* Items every page is built from, and items with one defect each.
CoreItems == {ItemA, ItemB, ItemC, ItemD}

DefectItems ==
    {ItemBadAmount, ItemBadRate, ItemBadQuantity, ItemNullAmount, ItemNullName}

ItemSeqs(n) == UNION {[1..m -> CoreItems] : m \in 0..n}

SubTotalVals == {Missing, Null, Num(0), Num(150000), NumStr(1004), BadStr}

PageNoVals == {TxtMissing, TxtNull, Txt("1"), Txt("2")}

TotalVals ==
    {Missing, Null, Num(0), Num(4), Num(120000), Num(150000), Num(-5000), BadStr}

\* Every page of core items; a page with a defect item, alone or after a
\* sound one; a page with each sub_total; a page with each page_no; a page
\* whose bill_items key is missing or null.
PageSet ==
    {Page(Txt("1"), List(is), Missing) : is \in ItemSeqs(MaxItems)}
    \cup {Page(Txt("1"), List(<<d>>), Missing) : d \in DefectItems}
    \cup {Page(Txt("1"), List(<<ItemA, d>>), Missing) : d \in DefectItems}
    \cup {Page(Txt("1"), List(<<ItemA>>), st) : st \in SubTotalVals}
    \cup {Page(pn, List(<<ItemA>>), Missing) : pn \in PageNoVals}
    \cup {Page(Txt("1"), [k |-> kk, items |-> <<>>], Missing) :
            kk \in {"missing", "null"}}

ItemCount(page) == Len(page.bill_items.items)

\* The page sequences of at most np pages and ni items in all.
RECURSIVE PageSeqsUpTo(_, _)
PageSeqsUpTo(np, ni) ==
    {<<>>} \cup
    IF np = 0 THEN {}
    ELSE UNION {{<<pg>> \o rest : rest \in PageSeqsUpTo(np - 1, ni - ItemCount(pg))} :
                  pg \in {q \in PageSet : ItemCount(q) <= ni}}

PageSeqs == PageSeqsUpTo(MaxPages, MaxItems)

Payloads ==
    {Payload(Pages(ps), t) : ps \in PageSeqs, t \in TotalVals}
    \cup {Payload([k |-> kk, pages |-> <<>>], t) :
            kk \in {"missing", "null"}, t \in TotalVals \ {Missing}}
    \cup {[EmptyObject EXCEPT !.extraction_notes = TRUE]}

(***************************************************************************)
(* Model responses.  A response is [kind, content]: the call raised        *)
(* ("exception"), the message content is None ("null_content"), or it is   *)
(* text ("content").  The text is a sequence of tokens: a triple backtick, *)
(* the word json, a line break, prose (text that is neither JSON nor holds *)
(* a backtick), or the text of one JSON value.                             *)
(***************************************************************************)
\* json.loads raised json.JSONDecodeError.
NotJson == [t |-> "notjson", truthy |-> FALSE, obj |-> EmptyObject]

Fence == [tok |-> "fence", val |-> PyNone]
JsonTag == [tok |-> "json", val |-> PyNone]
Newline == [tok |-> "nl", val |-> PyNone]
Prose == [tok |-> "prose", val |-> PyNone]
Value(v) == [tok |-> "value", val |-> v]

NoResponse == [kind |-> "none", content |-> <<>>]
Raised == [kind |-> "exception", content |-> <<>>]
NullContent == [kind |-> "null_content", content |-> <<>>]
Content(content) == [kind |-> "content", content |-> content]

\* "```json" in content
HasJsonFence(content) ==
    \E i \in 1..(Len(content) - 1) : content[i] = Fence /\ content[i + 1] = JsonTag

\* "```" in content
HasFence(content) == \E i \in 1..Len(content) : content[i] = Fence

\* The text after the first occurrence of sep, a token sequence:
\* content.split(sep)[1] and what follows it.
RECURSIVE AfterFirst(_, _)
AfterFirst(content, sep) ==
    IF Len(content) < Len(sep) THEN <<>>
    ELSE IF SubSeq(content, 1, Len(sep)) = sep
         THEN SubSeq(content, Len(sep) + 1, Len(content))
         ELSE AfterFirst(Tail(content), sep)

\* text.split("```")[0]: the text before the first triple backtick.
RECURSIVE BeforeFence(_)
BeforeFence(content) ==
    IF content = <<>> \/ Head(content) = Fence THEN <<>>
    ELSE <<Head(content)>> \o BeforeFence(Tail(content))

\* Variant: only a fence tagged json is taken off.
StripJsonFenceOnly(content) ==
    IF HasJsonFence(content)
    THEN BeforeFence(AfterFirst(content, <<Fence, JsonTag>>))
    ELSE content

\* if "```json" in content: content = content.split("```json")[1].split("```")[0]
\* elif "```" in content:   content = content.split("```")[1].split("```")[0]
StripFences(content) ==
    IF HasJsonFence(content)
    THEN BeforeFence(AfterFirst(content, <<Fence, JsonTag>>))
    ELSE IF HasFence(content)
         THEN BeforeFence(AfterFirst(content, <<Fence>>))
         ELSE content

\* str.strip(): the white space at both ends goes.
RECURSIVE Strip(_)
Strip(content) ==
    IF content = <<>> THEN <<>>
    ELSE IF Head(content) = Newline THEN Strip(Tail(content))
    ELSE IF content[Len(content)] = Newline
         THEN Strip(SubSeq(content, 1, Len(content) - 1))
         ELSE content

\* json.loads(text): the value when the text is that of one JSON value.
JsonLoads(content) ==
    IF Len(content) = 1 /\ content[1].tok = "value" THEN content[1].val ELSE NotJson

GoodPage == Page(Txt("1"), List(<<ItemA, ItemB>>), Num(150000))

GoodPayload == Payload(Pages(<<GoodPage>>), Num(120000))

\* The payloads the dispatch is exercised with: the empty object, no pages,
\* a clean bill, and a bill with one uncoercible field in each position.
ResponsePayloads ==
    {EmptyObject,
     Payload(Pages(<<>>), Missing),
     GoodPayload,
     Payload(Pages(<<GoodPage>>), BadStr),
     Payload(Pages(<<GoodPage, Page(Txt("2"), List(<<ItemC>>), BadStr)>>), Num(150000))}
    \cup {Payload(Pages(<<Page(Txt("1"), List(<<ItemA, it>>), Missing)>>), Num(120000)) :
            it \in {ItemBadAmount, ItemBadRate, ItemBadQuantity}}

\* The JSON values a response can hold: null, scalars and lists of either
\* truth value, and the objects above.
ResponseBodies ==
    {PyNone, JsonScalar(FALSE), JsonScalar(TRUE), JsonList(FALSE), JsonList(TRUE)}
    \cup {JsonObject(o) : o \in ResponsePayloads}

\* The text of J in a code fence: tagged json or bare, with or without
\* prose before and after the fence.
FencedForms(J) ==
    {pre \o open \o <<Newline, Value(J), Newline, Fence>> \o post :
        pre \in {<<>>, <<Prose, Newline>>},
        open \in {<<Fence, JsonTag>>, <<Fence>>},
        post \in {<<>>, <<Newline, Prose>>}}

\* The values that are also sent fenced.
FencedBodies == {JsonObject(GoodPayload)}

\* Texts that are not JSON, fenced or not.
NonJsonContents ==
    {<<>>, <<Prose>>, <<Prose, Newline, Value(JsonObject(GoodPayload))>>,
     <<Fence, JsonTag, Newline, Prose, Newline, Fence>>}

ResponseContents ==
    {<<Value(b)>> : b \in ResponseBodies}
    \cup UNION {FencedForms(J) : J \in FencedBodies}
    \cup NonJsonContents

ModelResponses == {Raised, NullContent} \cup {Content(c) : c \in ResponseContents}

(***************************************************************************)
(* Configuration and construction.                                         *)
(***************************************************************************)
\* str.lower() on the provider names in use.
Lower(s) == IF s = "OpenAI" THEN "openai" ELSE s

Configs ==
    [LLM_PROVIDER : {"gemini", "openai", "OpenAI", "azure"},
     OPENAI_API_KEY : BOOLEAN,
     GEMINI_API_KEY : BOOLEAN,
     GEMINI_AVAILABLE : BOOLEAN]

GPT_MODEL == "gpt-4o"
GPT_FALLBACK_MODEL == "gpt-4o-mini"
GEMINI_MODEL == "gemini-2.5-flash"

\* ocr_text[:2000]
TextContextLimit == 2000

\* Variant: the last characters kept instead of the first.
TruncateTail(text) ==
    IF Len(text) <= TextContextLimit THEN text
    ELSE SubSeq(text, Len(text) - TextContextLimit + 1, Len(text))

\* The slice text[:2000] of a string, a sequence of characters.
Truncate(text) ==
    IF Len(text) <= TextContextLimit THEN text
    ELSE SubSeq(text, 1, TextContextLimit)

\* An OCR text of n characters; the characters are digits that do not
\* repeat with the period of the limit.
OcrText(n) == [i \in 1..n |-> (i * i + i) % 7]

\* extract_text: the engine's text, the empty text when the engine raised.
ExtractText(engine) == IF engine.k = "error" THEN <<>> ELSE engine.text

\* ocr_service.process_document: None when the image could not be had, else
\* the image with its OCR text; ocr tells how the OCR engine ended.
NoDocument == [k |-> "none", text |-> <<>>, ocr |-> "none"]
Document(text) == [k |-> "doc", text |-> text, ocr |-> "ok"]
ProcessDocument(image, engine) ==
    IF ~image THEN NoDocument
    ELSE [k |-> "doc", text |-> ExtractText(engine), ocr |-> engine.k]

\* The OCR engine's outcomes: an error, or a text that is empty or of a
\* length below, at and over the limit.
OcrEngineOutcomes ==
    {[k |-> "error", text |-> <<>>]}
    \cup {[k |-> "ok", text |-> OcrText(n)] : n \in {0, 1500, 2000, 2001}}

OcrResults ==
    {ProcessDocument(image, engine) : image \in BOOLEAN, engine \in OcrEngineOutcomes}

NoAttempt ==
    [status |-> "none", strategy |-> "", attempts |-> 0, model |-> "",
     text |-> <<>>, resp |-> NoResponse, result |-> PyNone]

Pending == [k |-> "pending", data |-> NoData]
ReturnedNone == [k |-> "none", data |-> NoData]
Returned(d) == [k |-> "data", data |-> d]

\* extract_bill_data left by an exception instead of a return.
RaisedOut == [k |-> "raised", data |-> NoData]

NoReply == [kind |-> "none", status |-> 0, is_success |-> FALSE, error |-> "", data |-> Pending]

\* raise HTTPException(status_code=..., detail=...)
HTTPException(status, detail) ==
    [kind |-> "raised", status |-> status, is_success |-> FALSE,
     error |-> detail, data |-> Pending]

\* return BillExtractionResponse(is_success=True, data=extracted_data)
BillExtractionResponse(d) ==
    [kind |-> "returned", status |-> 200, is_success |-> TRUE, error |-> "", data |-> d]

\* except Exception as e: return BillExtractionResponse(is_success=False, error=str(e))
FailureResponse(e) ==
    [kind |-> "returned", status |-> 200, is_success |-> FALSE, error |-> e, data |-> Pending]

\* Variant: a handle for every provider whose key is set, whichever the
\* configured provider.
InitServiceAnyKey(cfg) ==
    [provider |-> Lower(cfg.LLM_PROVIDER),
     openai_client |-> cfg.OPENAI_API_KEY,
     gemini_model |-> cfg.GEMINI_API_KEY /\ cfg.GEMINI_AVAILABLE]

\* BillExtractionService.__init__
InitService(cfg) ==
    LET prov == Lower(cfg.LLM_PROVIDER)
    IN  [provider |-> prov,
         openai_client |-> prov = "openai" /\ cfg.OPENAI_API_KEY,
         gemini_model |-> ~(prov = "openai" /\ cfg.OPENAI_API_KEY)
                          /\ prov = "gemini" /\ cfg.GEMINI_API_KEY
                          /\ cfg.GEMINI_AVAILABLE]

Init ==
    /\ config \in Configs
    /\ provider = InitService(config).provider
    /\ openai_client = InitService(config).openai_client
    /\ gemini_model = InitService(config).gemini_model
    /\ pc = "idle"
    /\ ocr_result = NoDocument
    /\ primary = NoAttempt
    /\ fallback = NoAttempt
    /\ inflight = {}
    /\ extracted_data = PyNone
    /\ exit_line = ""
    /\ reconciled_data = Pending
    /\ response = NoReply

service == <<config, provider, openai_client, gemini_model>>

(***************************************************************************)
(* The /extract-bill-data handler, up to the call of extract_bill_data.    *)
(***************************************************************************)
\* Variant: a document without OCR text is turned away too.
AcquisitionFailedOrNoText(doc) == doc.k = "none" \/ doc.text = <<>>

\* Line 90: if not ocr_result
AcquisitionFailed(doc) == doc.k = "none"

ReceiveRequest ==
    /\ pc = "idle"
    /\ \E image \in BOOLEAN, engine \in OcrEngineOutcomes :
        LET doc == ProcessDocument(image, engine)
        IN  /\ ocr_result' = doc
            /\ IF AcquisitionFailed(doc)
               THEN /\ response' = HTTPException(400,
                          "Failed to process document. Please check the document URL.")
                    /\ pc' = "responded"
               ELSE /\ response' = response
                    /\ pc' = "dispatch"
    /\ UNCHANGED <<service, primary, fallback, inflight, extracted_data,
                   exit_line, reconciled_data>>

(***************************************************************************)
(* BillExtractionService.extract_bill_data.                                *)
(***************************************************************************)
\* The exception the body of a strategy's try block ends with on a
\* response, "" when it ends with `return data`: the call raises, the
\* membership test on a None content raises TypeError, json.loads raises
\* JSONDecodeError.
StrategyException(resp) ==
    CASE resp.kind = "exception" -> "Exception"
      [] resp.kind = "null_content" -> "TypeError"
      [] resp.kind = "content"
            /\ JsonLoads(Strip(StripFences(resp.content))) = NotJson -> "JSONDecodeError"
      [] OTHER -> ""

\* Variant: only `except json.JSONDecodeError`, without `except Exception`.
CatchesJsonErrorOnly(exc) == exc = "JSONDecodeError"

\* `except json.JSONDecodeError` and `except Exception` (the fallback:
\* `except Exception` alone) catch every exception of the try block.
Catches(exc) == exc \in {"JSONDecodeError", "TypeError", "Exception"}

\* An exception that leaves a strategy.
Propagates == [t |-> "raise", truthy |-> FALSE, obj |-> EmptyObject]

\* What a strategy returns on the model's response: the parsed value, or
\* None from an except clause.
ParseResponse(resp) ==
    LET exc == StrategyException(resp)
    IN  IF exc = "" THEN JsonLoads(Strip(StripFences(resp.content)))
        ELSE IF Catches(exc) THEN PyNone
        ELSE Propagates

\* Lines 356-361: which vision strategy runs, "" for none.
VisionStrategy ==
    IF provider = "gemini" /\ gemini_model THEN "gemini"
    ELSE IF provider = "openai" /\ openai_client THEN "vision"
    ELSE ""

DispatchPrimary ==
    /\ pc = "dispatch"
    /\ IF VisionStrategy # ""
       THEN /\ primary' = [status |-> "inflight", strategy |-> VisionStrategy,
                           attempts |-> primary.attempts + 1,
                           model |-> IF VisionStrategy = "gemini"
                                     THEN GEMINI_MODEL ELSE GPT_MODEL,
                           text |-> Truncate(ocr_result.text),
                           resp |-> NoResponse,
                           result |-> PyNone]
            /\ inflight' = inflight \cup {"primary"}
            /\ pc' = "primary_call"
            /\ UNCHANGED extracted_data
       ELSE /\ primary' = [primary EXCEPT !.status = "skipped"]
            /\ extracted_data' = PyNone
            /\ pc' = "after_primary"
            /\ UNCHANGED inflight
    /\ UNCHANGED <<service, ocr_result, fallback, exit_line, reconciled_data, response>>

\* An exception that leaves a strategy leaves extract_bill_data as well:
\* lines 355-366 are under no try.
PrimaryReturns ==
    /\ pc = "primary_call"
    /\ \E resp \in ModelResponses :
        LET data == ParseResponse(resp)
        IN  /\ primary' = [primary EXCEPT !.status = "returned", !.resp = resp,
                                          !.result = data]
            /\ IF data = Propagates
               THEN /\ pc' = "returned"
                    /\ exit_line' = "raised"
                    /\ reconciled_data' = RaisedOut
                    /\ UNCHANGED extracted_data
               ELSE /\ pc' = "after_primary"
                    /\ extracted_data' = data
                    /\ UNCHANGED <<exit_line, reconciled_data>>
    /\ inflight' = inflight \ {"primary"}
    /\ UNCHANGED <<service, ocr_result, fallback, response>>

\* Variant: the fallback only when no vision strategy ran.
FallbackOnlyUnconfigured(data) == VisionStrategy = ""

\* Line 364: if not extracted_data
ShouldFallback(data) == ~Truthy(data)

\* Line 245: fallback_extraction returns None at once without a client.
FallbackHasClient == openai_client \/ gemini_model

\* Lines 254-269: Gemini when there is a Gemini model, else OpenAI.
FallbackModel == IF gemini_model THEN GEMINI_MODEL ELSE GPT_FALLBACK_MODEL

StartFallback ==
    /\ pc = "after_primary"
    /\ IF ShouldFallback(extracted_data)
       THEN IF FallbackHasClient
            THEN /\ fallback' = [status |-> "inflight", strategy |-> "fallback",
                                 attempts |-> fallback.attempts + 1,
                                 model |-> FallbackModel,
                                 text |-> ocr_result.text,
                                 resp |-> NoResponse,
                                 result |-> PyNone]
                 /\ inflight' = inflight \cup {"fallback"}
                 /\ pc' = "fallback_call"
                 /\ UNCHANGED extracted_data
            ELSE /\ fallback' = [fallback EXCEPT !.status = "returned",
                                                 !.strategy = "fallback",
                                                 !.attempts = @ + 1,
                                                 !.result = PyNone]
                 /\ extracted_data' = PyNone
                 /\ pc' = "check"
                 /\ UNCHANGED inflight
       ELSE /\ pc' = "check"
            /\ UNCHANGED <<fallback, inflight, extracted_data>>
    /\ UNCHANGED <<service, ocr_result, primary, exit_line, reconciled_data, response>>

FallbackReturns ==
    /\ pc = "fallback_call"
    /\ \E resp \in ModelResponses :
        LET data == ParseResponse(resp)
        IN  /\ fallback' = [fallback EXCEPT !.status = "returned", !.resp = resp,
                                            !.result = data]
            /\ IF data = Propagates
               THEN /\ pc' = "returned"
                    /\ exit_line' = "raised"
                    /\ reconciled_data' = RaisedOut
                    /\ UNCHANGED extracted_data
               ELSE /\ pc' = "check"
                    /\ extracted_data' = data
                    /\ UNCHANGED <<exit_line, reconciled_data>>
    /\ inflight' = inflight \ {"fallback"}
    /\ UNCHANGED <<service, ocr_result, primary, response>>

\* Variant: the dispatch starts over when both strategies gave nothing.
RetryDispatch == "dispatch"

\* Lines 368-370: where the dispatch goes with no usable payload.
NoDataNext == "returned"

\* Lines 373-378: reconcile_amounts under try/except; a value that is not a
\* mapping has no .get and raises too.
TryReconcile(data) ==
    IF data.t = "object" THEN ReconcileAmounts(data.obj)
    ELSE [raised |-> TRUE, data |-> NoData]

Conclude ==
    /\ pc = "check"
    /\ IF ~Truthy(extracted_data)
       THEN /\ pc' = NoDataNext
            /\ exit_line' = "no_data"
            /\ reconciled_data' = ReturnedNone
       ELSE LET r == TryReconcile(extracted_data)
            IN  /\ pc' = "returned"
                /\ exit_line' = IF r.raised THEN "reconcile_error" ELSE "reconciled"
                /\ reconciled_data' = IF r.raised THEN ReturnedNone ELSE Returned(r.data)
    /\ UNCHANGED <<service, ocr_result, primary, fallback, inflight, extracted_data,
                   response>>

(***************************************************************************)
(* The handler, from the return of extract_bill_data on.                   *)
(***************************************************************************)
HandlerRespond ==
    /\ pc = "returned"
    /\ response' =
         IF reconciled_data.k = "raised"
         THEN FailureResponse("exception")
         ELSE IF reconciled_data.k = "none"
         THEN HTTPException(500,
                "Failed to extract bill data. Please check your OpenAI API key.")
         ELSE BillExtractionResponse(reconciled_data)
    /\ pc' = "responded"
    /\ UNCHANGED <<service, ocr_result, primary, fallback, inflight, extracted_data,
                   exit_line, reconciled_data>>

\* The next request starts with fresh locals.
NextRequest ==
    /\ pc = "responded"
    /\ pc' = "idle"
    /\ ocr_result' = NoDocument
    /\ primary' = NoAttempt
    /\ fallback' = NoAttempt
    /\ extracted_data' = PyNone
    /\ exit_line' = ""
    /\ reconciled_data' = Pending
    /\ response' = NoReply
    /\ UNCHANGED <<service, inflight>>

Next ==
    \/ ReceiveRequest
    \/ DispatchPrimary
    \/ PrimaryReturns
    \/ StartFallback
    \/ FallbackReturns
    \/ Conclude
    \/ HandlerRespond
    \/ NextRequest

Spec == Init /\ [][Next]_vars

(***************************************************************************)
(* Reconciliation on its own: extract_bill_data at line 368 with each      *)
(* payload of Payloads as the primary strategy's result.                   *)
(***************************************************************************)
DefaultConfig ==
    [LLM_PROVIDER |-> "gemini", OPENAI_API_KEY |-> FALSE,
     GEMINI_API_KEY |-> TRUE, GEMINI_AVAILABLE |-> TRUE]

InitReconcile ==
    /\ config = DefaultConfig
    /\ provider = InitService(config).provider
    /\ openai_client = InitService(config).openai_client
    /\ gemini_model = InitService(config).gemini_model
    /\ pc = "check"
    /\ ocr_result = Document(OcrText(12))
    /\ \E p \in Payloads :
        /\ primary = [status |-> "returned", strategy |-> "gemini", attempts |-> 1,
                      model |-> GEMINI_MODEL, text |-> OcrText(12),
                      resp |-> Content(<<Value(JsonObject(p))>>),
                      result |-> JsonObject(p)]
        /\ extracted_data = JsonObject(p)
    /\ fallback = NoAttempt
    /\ inflight = {}
    /\ exit_line = ""
    /\ reconciled_data = Pending
    /\ response = NoReply

NextReconcile == Conclude

SpecReconcile == InitReconcile /\ [][NextReconcile]_vars

(***************************************************************************)
(* Properties.                                                             *)
(***************************************************************************)
Succeeded == reconciled_data.k = "data"

Out == reconciled_data.data

In == extracted_data.obj

InPages == PagewiseOf(In).pages

RECURSIVE ItemSum(_)
ItemSum(items) ==
    IF items = <<>> THEN 0 ELSE items[1].item_amount + ItemSum(Tail(items))

\* The unrounded sum of item_amount over every item of every output page.
RECURSIVE OutputItemSum(_)
OutputItemSum(pages) ==
    IF pages = <<>> THEN 0
    ELSE ItemSum(pages[1].bill_items) + OutputItemSum(Tail(pages))

RECURSIVE OutputItemCount(_)
OutputItemCount(pages) ==
    IF pages = <<>> THEN 0
    ELSE Len(pages[1].bill_items) + OutputItemCount(Tail(pages))

\* The payload without any sub_total and without its actual_bill_total.
WithoutTotals(payload) ==
    [payload EXCEPT
        !.pagewise_line_items.pages =
            [i \in 1..Len(@) |-> [@[i] EXCEPT !.sub_total = Missing]],
        !.actual_bill_total = Missing]

\* C1: on success reconciled_amount is the sum of the item amounts of all
\* pages, rounded once at the end, and is what the same payload gives with
\* every sub_total and the actual_bill_total taken out: payloads that differ
\* only in those fields reconcile to the same amount.
C1_ReconciledIsItemSum ==
    Succeeded =>
        /\ Out.reconciled_amount = Round2(OutputItemSum(Out.pagewise_line_items))
        /\ LET r == ReconcileAmounts(WithoutTotals(In))
           IN  ~r.raised /\ r.data.reconciled_amount = Out.reconciled_amount

C1_Witness ==
    /\ Succeeded
    /\ Len(Out.pagewise_line_items) = 2
    /\ Out.total_item_count = 2
    /\ Out.pagewise_line_items[1].sub_total.k = "float"
    /\ Out.actual_bill_total.k = "float"
    /\ OutputItemSum(Out.pagewise_line_items) % 10 # 0

\* C2: on success total_item_count is the number of items of all output
\* pages together, 0 for no page or only empty pages.
C2_CountIsItemCount ==
    Succeeded => Out.total_item_count = OutputItemCount(Out.pagewise_line_items)

C2_Witness ==
    /\ Succeeded
    /\ Len(Out.pagewise_line_items) = 2
    /\ Len(Out.pagewise_line_items[1].bill_items) = 0
    /\ Out.total_item_count = 1

\* The stated total of the payload: absent, or its numeric value.
StatedAbsent == Get(In.actual_bill_total).k = "null"

StatedTotal == In.actual_bill_total.v

C4_AccuracyNeedsPositiveTotal ==
    (Succeeded /\ Out.accuracy_percentage.k = "float") =>
        (Out.actual_bill_total.k = "float" /\ Out.actual_bill_total.v > 0)

\* C5: once acquisition has succeeded, a request that fails ends in a
\* returned BillExtractionResponse with is_success false and a non-empty
\* error, never in an exception raised to the transport layer.
C5_FailureIsStructuredResponse ==
    (pc = "responded" /\ ocr_result.k = "doc" /\ reconciled_data.k = "none") =>
        (response.kind = "returned" /\ ~response.is_success /\ response.error # "")

\* The primary strategy gave the failure signal: no vision client, a raised
\* call, a None content, or text that is not JSON.
PrimaryFailed ==
    \/ primary.status = "skipped"
    \/ /\ primary.status = "returned"
       /\ \/ primary.resp.kind \in {"exception", "null_content"}
          \/ /\ primary.resp.kind = "content"
             /\ JsonLoads(Strip(StripFences(primary.resp.content))) = NotJson

\* The fallback strategy gave no usable payload.
FallbackGaveNothing ==
    /\ fallback.status = "returned"
    /\ \/ fallback.resp.kind # "content"
       \/ JsonLoads(Strip(StripFences(fallback.resp.content))) = NotJson
       \/ ~Truthy(JsonLoads(Strip(StripFences(fallback.resp.content))))

\* C6: when the primary strategy fails or no vision client is configured the
\* fallback strategy is attempted, and the dispatch gives up (line 370) only
\* after the fallback gave nothing either.
C6_FallbackAfterPrimaryFailure ==
    /\ (PrimaryFailed /\ pc \in {"fallback_call", "check", "returned", "responded"})
          => fallback.attempts = 1
    /\ exit_line = "no_data" => (fallback.attempts = 1 /\ FallbackGaveNothing)

C6_Witness ==
    /\ primary.status = "returned"
    /\ primary.resp = Content(<<Prose>>)
    /\ fallback.attempts = 1
    /\ fallback.resp = Content(<<Value(JsonObject(GoodPayload))>>)
    /\ exit_line = "reconciled"

\* A numeric field of the payload holds a string that is not a number.
HasBadField(payload) ==
    \/ payload.actual_bill_total.k = "str"
    \/ \E i \in 1..Len(PagewiseOf(payload).pages) :
          LET page == PagewiseOf(payload).pages[i]
          IN  \/ page.sub_total.k = "str"
              \/ \E j \in 1..Len(page.bill_items.items) :
                    LET item == page.bill_items.items[j]
                    IN  \/ item.item_amount.k = "str"
                        \/ item.item_rate.k = "str"
                        \/ item.item_quantity.k = "str"

\* C7: a payload with an uncoercible numeric field anywhere makes
\* extract_bill_data return None; no ExtractedData comes out, whatever
\* preceded the field.
C7_BadFieldFailsRequest ==
    (pc = "returned" /\ extracted_data.t = "object" /\ HasBadField(In)) =>
        (reconciled_data = ReturnedNone /\ exit_line = "reconcile_error")

C7_Witness ==
    /\ pc = "returned"
    /\ Len(InPages) = 1
    /\ InPages[1].bill_items.items = <<ItemA, ItemBadRate>>
    /\ reconciled_data = ReturnedNone

\* An optional field is carried over: absent stays None, a number (0 too)
\* stays that number.
Preserved(in, out) ==
    /\ in.k \in {"missing", "null"} => out = None
    /\ in.k = "num" => out = Float(in.v)

\* C8: item_rate, item_quantity and sub_total are None in the output when
\* missing or null in the payload, and the payload's number, 0 included,
\* when it has one.
C8_OptionalFieldsPreserved ==
    Succeeded =>
        /\ Len(Out.pagewise_line_items) = Len(InPages)
        /\ \A i \in 1..Len(InPages) :
              LET inItems == BillItemsOf(InPages[i]).items
                  outPage == Out.pagewise_line_items[i]
              IN  /\ Preserved(InPages[i].sub_total, outPage.sub_total)
                  /\ Len(outPage.bill_items) = Len(inItems)
                  /\ \A j \in 1..Len(inItems) :
                        /\ Preserved(inItems[j].item_rate,
                                     outPage.bill_items[j].item_rate)
                        /\ Preserved(inItems[j].item_quantity,
                                     outPage.bill_items[j].item_quantity)

C8_Witness ==
    /\ Succeeded
    /\ Len(InPages) = 2
    /\ InPages[1].sub_total = Num(0)
    /\ Out.pagewise_line_items[1].sub_total = Float(0)
    /\ InPages[1].bill_items.items = <<ItemA>>
    /\ Out.pagewise_line_items[1].bill_items[1].item_rate = None
    /\ Out.pagewise_line_items[1].bill_items[1].item_quantity = None
    /\ InPages[2].bill_items.items = <<ItemB>>
    /\ Out.pagewise_line_items[2].bill_items[1].item_rate = Float(0)
    /\ Out.pagewise_line_items[2].sub_total = None

\* C9: the output actual_bill_total is absent exactly when the payload's is
\* (missing or null); a stated total, 0 included, comes out as that number
\* rounded to 2 decimals.
C9_TotalAbsentIffAbsent ==
    Succeeded =>
        /\ (Out.actual_bill_total = None) <=> StatedAbsent
        /\ ~StatedAbsent => Out.actual_bill_total = Float(Round2(StatedTotal))

\* C10: within a request each strategy is attempted at most once, at most
\* one model call is in flight, and the fallback starts only once the
\* primary strategy has returned or been passed over.
C10_SequentialBounded ==
    /\ primary.attempts <= 1
    /\ fallback.attempts <= 1
    /\ Cardinality(inflight) <= 1
    /\ fallback.status # "none" =>
          (primary.status \in {"returned", "skipped"} /\ "primary" \notin inflight)

C10_Witness ==
    /\ "fallback" \in inflight
    /\ primary.status = "returned"
    /\ primary.attempts = 1
    /\ fallback.attempts = 1

\* The models the text-only path has called in this request, in call order.
TextOnlyModels ==
    IF fallback.status \in {"inflight", "returned"} /\ fallback.model # ""
    THEN <<fallback.model>> ELSE <<>>

\* C11: within the text-only path of a provider with two completion models
\* the cheaper model (GPT_FALLBACK_MODEL) is called only after the primary
\* model (GPT_MODEL) has been called on that path.
C11_PrimaryModelBeforeCheap ==
    \A i \in 1..Len(TextOnlyModels) :
        TextOnlyModels[i] = GPT_FALLBACK_MODEL =>
            \E j \in 1..(i - 1) : TextOnlyModels[j] = GPT_MODEL

\* The strategy calls made for the request in progress.
StrategyCalls == primary.attempts + fallback.attempts

\* C12: a strategy is called only for a request whose acquisition gave an
\* image; a request whose acquisition failed ends in failure with no
\* strategy called; and a request with an image has a strategy called by
\* the time the dispatch concludes, an empty OCR text (an OCR engine error
\* gives one) included.
C12_StrategyIffAcquired ==
    /\ StrategyCalls > 0 => ocr_result.k = "doc"
    /\ (pc = "responded" /\ ocr_result.k = "none") =>
          (response.kind = "raised" /\ ~response.is_success /\ StrategyCalls = 0)
    /\ (pc \in {"check", "returned", "responded"} /\ ocr_result.k = "doc") =>
          StrategyCalls >= 1

C12_Witness ==
    /\ ocr_result.k = "doc"
    /\ ocr_result.ocr = "error"
    /\ ocr_result.text = <<>>
    /\ primary.status = "returned"
    /\ primary.text = <<>>
    /\ exit_line = "reconciled"

\* The lists of the payload are lists, or their keys are missing.
ListsWellFormed(payload) ==
    /\ payload.pagewise_line_items.k # "null"
    /\ \A i \in 1..Len(PagewiseOf(payload).pages) :
          PagewiseOf(payload).pages[i].bill_items.k # "null"

\* A field is absent: its key is missing or its value is null.
Absent(field) == field.k \in {"missing", "null"}

\* C13: with no uncoercible string in the payload, reconciliation succeeds
\* whichever of page_no, item_amount and item_name are absent (key missing
\* or null); an absent page_no comes out as "1", an absent item_amount as
\* 0, an absent item_name as the placeholder.
C13_AbsentFieldsDefaulted ==
    (pc = "returned" /\ extracted_data.t = "object"
        /\ ~HasBadField(In) /\ ListsWellFormed(In)) =>
        /\ Succeeded
        /\ Len(Out.pagewise_line_items) = Len(InPages)
        /\ \A i \in 1..Len(InPages) :
              LET inItems == BillItemsOf(InPages[i]).items
                  outPage == Out.pagewise_line_items[i]
              IN  /\ Absent(InPages[i].page_no) => outPage.page_no = "1"
                  /\ Len(outPage.bill_items) = Len(inItems)
                  /\ \A j \in 1..Len(inItems) :
                        /\ Absent(inItems[j].item_amount) =>
                              outPage.bill_items[j].item_amount = 0
                        /\ Absent(inItems[j].item_name) =>
                              outPage.bill_items[j].item_name = "Unknown"

\* A value in thousandths with at most 2 decimal places.
TwoDecimals(x) == x % 10 = 0

\* An Optional[float] that is None or has at most 2 decimal places.
OptionalTwoDecimals(o) == o.k = "float" => TwoDecimals(o.v)

\* C14: every monetary value of a returned ExtractedData (each item_amount
\* and item_rate, each sub_total, reconciled_amount, actual_bill_total) has
\* at most 2 decimal places.
C14_MoneyRoundedToCents ==
    Succeeded =>
        /\ TwoDecimals(Out.reconciled_amount)
        /\ OptionalTwoDecimals(Out.actual_bill_total)
        /\ \A i \in 1..Len(Out.pagewise_line_items) :
              LET page == Out.pagewise_line_items[i]
              IN  /\ OptionalTwoDecimals(page.sub_total)
                  /\ \A j \in 1..Len(page.bill_items) :
                        /\ TwoDecimals(page.bill_items[j].item_amount)
                        /\ OptionalTwoDecimals(page.bill_items[j].item_rate)

Min(a, b) == IF a < b THEN a ELSE b

\* The first n characters of a text.
Prefix(text, n) == [i \in 1..n |-> text[i]]

\* C15: while a vision strategy's model call is in flight, the text it
\* passed to the model is the first min(len, 2000) characters of the OCR
\* text; while the fallback's call is in flight, the text it passed is the
\* whole OCR text.
C15_TextContext ==
    /\ primary.status = "inflight" =>
          primary.text = Prefix(ocr_result.text, Min(Len(ocr_result.text), 2000))
    /\ fallback.status = "inflight" => fallback.text = ocr_result.text

C15_Witness ==
    /\ Len(ocr_result.text) > 2000
    /\ primary.status = "returned"
    /\ Len(primary.text) = 2000
    /\ fallback.status = "inflight"
    /\ Len(fallback.text) = Len(ocr_result.text)

\* C16: whatever the model calls do (raise, give a None content, text that
\* is not JSON, JSON of any type), no exception leaves a strategy or
\* extract_bill_data: the call ends by returning an ExtractedData or None,
\* and the fallback without a client returns None.
C16_NeverRaises ==
    /\ primary.result # Propagates
    /\ fallback.result # Propagates
    /\ reconciled_data # RaisedOut
    /\ pc = "returned" => reconciled_data.k \in {"none", "data"}
    /\ (fallback.status = "returned" /\ ~FallbackHasClient) =>
          (fallback.result = PyNone /\ fallback.resp = NoResponse)

C16_Witness ==
    /\ pc = "returned"
    /\ primary.resp = Raised
    /\ primary.result = PyNone
    /\ fallback.resp = NullContent
    /\ fallback.result = PyNone
    /\ reconciled_data = ReturnedNone

\* C17: the value reconcile_amounts is called with is a JSON object, and a
\* primary strategy whose response parsed to a JSON value that is not an
\* object (a list, a string, a number, a boolean) is followed by the
\* fallback.
C17_OnlyObjectsReconciled ==
    /\ exit_line \in {"reconciled", "reconcile_error"} => extracted_data.t = "object"
    /\ (primary.status = "returned" /\ primary.result.t \in {"list", "scalar"}
          /\ pc \in {"fallback_call", "check", "returned", "responded"})
          => fallback.attempts = 1

\* A returned attempt parsed a fenced JSON text as the text alone, and took
\* a text that is not JSON once the fences are off for a failure.
FencesStripped(attempt) ==
    (attempt.status = "returned" /\ attempt.resp.kind = "content") =>
        /\ \A J \in ResponseBodies :
              attempt.resp.content \in FencedForms(J) =>
                  /\ attempt.result = J
                  /\ attempt.result = ParseResponse(Content(<<Value(J)>>))
        /\ attempt.resp.content \in NonJsonContents => attempt.result = PyNone

\* C18: in each strategy a JSON text in a code fence, tagged json or bare,
\* with or without prose around the fence, parses to the payload the text
\* alone parses to, and a response that is not JSON after the fences are
\* stripped makes the strategy return None; whatever JSON value the model
\* called sends fenced, the strategy awaiting it returns that value.
C18_FencesStripped ==
    /\ FencesStripped(primary)
    /\ FencesStripped(fallback)
    /\ inflight # {} =>
          \A J \in ResponseBodies : \A c \in FencedForms(J) :
              /\ ParseResponse(Content(c)) = J
              /\ ParseResponse(Content(c)) = ParseResponse(Content(<<Value(J)>>))

C18_Witness ==
    /\ primary.status = "returned"
    /\ primary.strategy = "vision"
    /\ primary.resp = Content(<<Fence, JsonTag, Newline, Prose, Newline, Fence>>)
    /\ primary.result = PyNone
    /\ fallback.status = "returned"
    /\ fallback.resp = Content(<<Prose, Newline, Fence, Newline,
                                 Value(JsonObject(GoodPayload)), Newline, Fence,
                                 Newline, Prose>>)
    /\ fallback.result = JsonObject(GoodPayload)

\* An output item is what its payload item holds: the name and the amount
\* where the payload states them.
ItemFrom(inItem, outItem) ==
    /\ inItem.item_name.k = "str" => outItem.item_name = inItem.item_name.s
    /\ inItem.item_name.k = "missing" => outItem.item_name = "Unknown"
    /\ inItem.item_amount.k \in {"num", "numstr"} =>
          outItem.item_amount = inItem.item_amount.v
    /\ Preserved(inItem.item_rate, outItem.item_rate)
    /\ Preserved(inItem.item_quantity, outItem.item_quantity)

\* C19: the output has as many pages as the payload, its i-th page is made
\* from the payload's i-th page (pages are neither sorted by page_no nor
\* merged when page_no repeats), and the j-th item of a page is made from
\* the j-th item of that payload page.
C19_OrderPreserved ==
    Succeeded =>
        /\ Len(Out.pagewise_line_items) = Len(InPages)
        /\ \A i \in 1..Len(InPages) :
              LET inItems == BillItemsOf(InPages[i]).items
                  outPage == Out.pagewise_line_items[i]
              IN  /\ InPages[i].page_no.k = "str" =>
                        outPage.page_no = InPages[i].page_no.s
                  /\ Preserved(InPages[i].sub_total, outPage.sub_total)
                  /\ Len(outPage.bill_items) = Len(inItems)
                  /\ \A j \in 1..Len(inItems) :
                        ItemFrom(inItems[j], outPage.bill_items[j])

C19_Witness ==
    /\ Succeeded
    /\ Len(InPages) = 2
    /\ InPages[1].page_no = Txt("2")
    /\ InPages[2].page_no = Txt("1")
    /\ Out.pagewise_line_items[1].page_no = "2"
    /\ Out.pagewise_line_items[2].page_no = "1"

\* Pages with the same page_no stay apart, and items keep their order.
C19_WitnessRepeated ==
    /\ Succeeded
    /\ Len(InPages) = 2
    /\ InPages[1].page_no = InPages[2].page_no
    /\ InPages[1].bill_items.items = <<ItemB>>
    /\ InPages[2].bill_items.items = <<ItemA>>
    /\ Len(Out.pagewise_line_items) = 2
    /\ Out.pagewise_line_items[1].bill_items[1].item_name = "Xray"

\* The primary strategy's response parsed to a JSON object.
PrimaryParsedObject == primary.status = "returned" /\ primary.result.t = "object"

\* C20: once the primary strategy's response has parsed to a JSON object,
\* the empty object and an object without pages included, the fallback is
\* not called and that object is the payload reconciled; the empty object
\* gives an ExtractedData with total_item_count 0 and reconciled_amount 0.
C20_NoFallbackAfterParsedObject ==
    PrimaryParsedObject =>
        /\ fallback.attempts = 0
        /\ pc = "returned" =>
              /\ extracted_data = primary.result
              /\ exit_line \in {"reconciled", "reconcile_error"}
        /\ (pc = "returned" /\ primary.result.obj = EmptyObject) =>
              /\ Succeeded
              /\ Out.total_item_count = 0
              /\ Out.reconciled_amount = 0

\* The provider a model belongs to, "" for no model.
ProviderOf(model) ==
    IF model = GEMINI_MODEL THEN "gemini"
    ELSE IF model \in {GPT_MODEL, GPT_FALLBACK_MODEL} THEN "openai"
    ELSE ""

\* At most one handle is set and it is the configured provider's; the
\* models called are that provider's; without a handle no model is called
\* and the request fails.
HandlesOfProvider ==
    /\ ~(openai_client /\ gemini_model)
    /\ provider = Lower(config.LLM_PROVIDER)
    /\ openai_client => (provider = "openai" /\ config.OPENAI_API_KEY)
    /\ gemini_model =>
          (provider = "gemini" /\ config.GEMINI_API_KEY /\ config.GEMINI_AVAILABLE)
    /\ primary.model # "" => ProviderOf(primary.model) = provider
    /\ fallback.model # "" => ProviderOf(fallback.model) = provider
    /\ (~openai_client /\ ~gemini_model) =>
          /\ primary.model = ""
          /\ fallback.model = ""
          /\ inflight = {}
          /\ pc = "returned" => reconciled_data = ReturnedNone
          /\ pc = "responded" => (response.kind = "raised" /\ ~response.is_success)

\* C21: in every state at most one of openai_client and gemini_model is set
\* and it belongs to the configured provider, so that the fallback calls
\* the provider the primary strategy calls and a service whose provider has
\* no usable key fails every request without a model call, whatever other
\* key is set; and no step of a request changes the configuration, the
\* provider or a handle.
C21_HandlesFixed == []HandlesOfProvider /\ [][UNCHANGED service]_vars

C21_Witness ==
    /\ config.LLM_PROVIDER = "gemini"
    /\ ~config.GEMINI_API_KEY
    /\ config.OPENAI_API_KEY
    /\ ~openai_client
    /\ ~gemini_model
    /\ pc = "responded"
    /\ ocr_result.k = "doc"
    /\ fallback.attempts = 1
    /\ fallback.resp = NoResponse
    /\ response.status = 500

====
